---------------------------- MODULE Spec2Model ----------------------------
(***************************************************************************)
(* Model of computer_talk: the ComputerTalk session (core.py) and the      *)
(* DesktopManager platform adapter (desktop.py).                           *)
(*                                                                         *)
(* Text is a sequence of one-character strings, so that the prefix and     *)
(* substring tests, the splits and the strips of the command parser are    *)
(* computed character by character as the Python code computes them.      *)
(***************************************************************************)
EXTENDS Integers, Sequences, FiniteSets, TLC

(***************************************************************************)
(* Python str primitives used by the parser                                *)
(***************************************************************************)

LowerChars ==
  <<"a","b","c","d","e","f","g","h","i","j","k","l","m","n","o","p","q","r","s","t","u","v","w","x","y","z">>

UpperChars ==
  <<"A","B","C","D","E","F","G","H","I","J","K","L","M","N","O","P","Q","R","S","T","U","V","W","X","Y","Z">>


Whitespace == {" ", "\t", "\n"}

\* the lower-case letter of each upper-case letter, and the converse
ToLower ==
  [c \in {UpperChars[i] : i \in 1..Len(UpperChars)} |->
     LowerChars[CHOOSE i \in 1..Len(UpperChars) : UpperChars[i] = c]]

ToUpper ==
  [c \in {LowerChars[i] : i \in 1..Len(LowerChars)} |->
     UpperChars[CHOOSE i \in 1..Len(LowerChars) : LowerChars[i] = c]]

IsCased(c) == c \in DOMAIN ToLower \/ c \in DOMAIN ToUpper

LowerChar(c) == IF c \in DOMAIN ToLower THEN ToLower[c] ELSE c

UpperChar(c) == IF c \in DOMAIN ToUpper THEN ToUpper[c] ELSE c

\* str.lower()
Lower(s) == [i \in 1..Len(s) |-> LowerChar(s[i])]

\* str.capitalize(): first character upper-cased, the rest lower-cased
Capitalize(s) ==
  [i \in 1..Len(s) |-> IF i = 1 THEN UpperChar(s[i]) ELSE LowerChar(s[i])]

\* str.title(): a cased character is upper-cased when it follows an uncased
\* character (or starts the text) and lower-cased otherwise
Title(s) ==
  [i \in 1..Len(s) |->
     IF i = 1 \/ ~IsCased(s[i - 1]) THEN UpperChar(s[i]) ELSE LowerChar(s[i])]

\* str.startswith(prefix)
StartsWith(s, prefix) ==
  /\ Len(s) >= Len(prefix)
  /\ \A j \in 1..Len(prefix) : s[j] = prefix[j]

\* s[n:]
DropFirst(s, n) == SubSeq(s, n + 1, Len(s))

\* str.find(sub) + 1: the 1-based index of the leftmost occurrence, 0 if none
RECURSIVE FindFrom(_, _, _)
FindFrom(s, sub, i) ==
  IF i + Len(sub) - 1 > Len(s) THEN 0
  ELSE IF \A j \in 1..Len(sub) : s[i + j - 1] = sub[j] THEN i
  ELSE FindFrom(s, sub, i + 1)

Find(s, sub) == FindFrom(s, sub, 1)

\* sub in s
Contains(s, sub) == Find(s, sub) # 0

\* str.strip(chars) for a set of characters
RECURSIVE FirstNotIn(_, _, _)
FirstNotIn(s, chars, i) ==
  IF i > Len(s) \/ s[i] \notin chars THEN i ELSE FirstNotIn(s, chars, i + 1)

RECURSIVE LastNotIn(_, _, _)
LastNotIn(s, chars, i) ==
  IF i < 1 \/ s[i] \notin chars THEN i ELSE LastNotIn(s, chars, i - 1)

StripChars(s, chars) == SubSeq(s, FirstNotIn(s, chars, 1), LastNotIn(s, chars, Len(s)))

\* str.strip()
Strip(s) == StripChars(s, Whitespace)

\* str.split(sep): every non-overlapping occurrence, leftmost first
RECURSIVE SplitFrom(_, _, _)
SplitFrom(s, sep, from) ==
  LET i == FindFrom(s, sep, from)
  IN  IF i = 0 THEN <<SubSeq(s, from, Len(s))>>
      ELSE <<SubSeq(s, from, i - 1)>> \o SplitFrom(s, sep, i + Len(sep))

\* str.split(sep, 1) where the code calls str.split(sep)
SplitAtFirst(s, sep) ==
  LET i == Find(s, sep)
  IN  IF i = 0 THEN <<s>>
      ELSE <<SubSeq(s, 1, i - 1), SubSeq(s, i + Len(sep), Len(s))>>

Split(s, sep) == SplitFrom(s, sep, 1)

\* str.split(sep, 1): at most one split, at the leftmost occurrence
SplitOnce(s, sep) ==
  LET i == Find(s, sep)
  IN  IF i = 0 THEN <<s>>
      ELSE <<SubSeq(s, 1, i - 1), DropFirst(s, i + Len(sep) - 1)>>

\* str.split(): the whitespace-delimited words
RECURSIVE FirstIn(_, _, _)
FirstIn(s, chars, i) ==
  IF i > Len(s) \/ s[i] \in chars THEN i ELSE FirstIn(s, chars, i + 1)

RECURSIVE WordsFrom(_, _)
WordsFrom(s, i) ==
  LET lo == FirstNotIn(s, Whitespace, i)
      hi == FirstIn(s, Whitespace, lo)
  IN  IF lo > Len(s) THEN << >>
      ELSE <<SubSeq(s, lo, hi - 1)>> \o WordsFrom(s, hi)

Words(s) == WordsFrom(s, 1)

(***************************************************************************)
(* Literals of the command grammar                                         *)
(***************************************************************************)

PrefixHello ==
  <<"h","e","l","l","o">>

PrefixTime ==
  <<"t","i","m","e">>

PrefixStatus ==
  <<"s","t","a","t","u","s">>

PrefixTask ==
  <<"t","a","s","k">>

PrefixClearTask ==
  <<"c","l","e","a","r"," ","t","a","s","k">>

PrefixOpen ==
  <<"o","p","e","n"," ">>

PrefixListApps ==
  <<"l","i","s","t"," ","a","p","p","s">>

PrefixRunningApps ==
  <<"r","u","n","n","i","n","g"," ","a","p","p","s">>

PrefixClose ==
  <<"c","l","o","s","e"," ">>

SepSendMessageTo ==
  <<" ","a","n","d"," ","s","e","n","d"," ","a"," ","m","e","s","s","a","g","e"," ","t","o"," ">>

SepSendMessage ==
  <<" ","a","n","d"," ","s","e","n","d"," ","a"," ","m","e","s","s","a","g","e"," ">>

SepAnd ==
  <<" ","a","n","d"," ">>

SepThatSays ==
  <<" ","t","h","a","t"," ","s","a","y","s"," ">>

SepSaying ==
  <<" ","s","a","y","i","n","g"," ">>


QuoteChars == {"'", "\""}

MessagesApp == <<"m","e","s","s","a","g","e","s">>
MessageApp == <<"m","e","s","s","a","g","e">>
SlackApp == <<"s","l","a","c","k">>
DiscordApp == <<"d","i","s","c","o","r","d">>

app_patterns ==
  << <<"m","e","s","s","a","g","e","s">>,
     <<"m","e","s","s","a","g","e">>,
     <<"m","a","i","l">>,
     <<"e","m","a","i","l">>,
     <<"s","a","f","a","r","i">>,
     <<"c","h","r","o","m","e">>,
     <<"f","i","r","e","f","o","x">>,
     <<"t","e","r","m","i","n","a","l">>,
     <<"f","i","n","d","e","r">>,
     <<"n","o","t","e","s">>,
     <<"c","a","l","e","n","d","a","r">>,
     <<"s","l","a","c","k">>,
     <<"d","i","s","c","o","r","d">>,
     <<"z","o","o","m">>,
     <<"n","o","t","i","o","n">>,
     <<"f","i","g","m","a">>,
     <<"v","s","c","o","d","e">>,
     <<"c","o","d","e">>,
     <<"x","c","o","d","e">>,
     <<"p","h","o","t","o","s">>,
     <<"p","r","e","v","i","e","w">>,
     <<"s","p","o","t","i","f","y">>,
     <<"m","u","s","i","c">>,
     <<"i","t","u","n","e","s">>,
     <<"t","e","x","t","e","d","i","t">>,
     <<"p","a","g","e","s">>,
     <<"n","u","m","b","e","r","s">>,
     <<"k","e","y","n","o","t","e">> >>


TitleCasePatterns ==
  { <<"v","s","c","o","d","e">>, <<"x","c","o","d","e">> }

(***************************************************************************)
(* Bounds of the model                                                     *)
(***************************************************************************)
\* largest value of int(time.time()) the model lets the clock reach
MaxClock == 1

\* largest number of TrackedApp entries the model lets the registry hold
MaxTracked == 2

(***************************************************************************)
(* Values shared by both layers                                            *)
(*                                                                         *)
(* A rendered text (a response, a result message, str(e)) is the           *)
(* concatenation of its pieces: the characters of the user's text, one     *)
(* per element, and the literal fragments of the f-string, one element     *)
(* per fragment.                                                           *)
(***************************************************************************)
CheckGlyph == "[check] "
CrossGlyph == "[cross] "

\* a call that returned v
Return(v) == [exc |-> "none", val |-> v]

\* a call that raised an exception of class cls whose str() is text
Raise(cls, text) == [exc |-> cls, val |-> text]

Raised(r) == r.exc # "none"

\* what one external process invocation can do
ProcOutcomes == {"exit0", "nonzero", "timeout", "oserror"}

\* what one subprocess.Popen can do: the child is spawned (whatever its later
\* exit code), the program is not found, or another OSError
PopenOutcomes == {"exit0", "nonzero", "notfound", "oserror"}

Systems == {"darwin", "windows", "linux", "freebsd"}

(***************************************************************************)
(* desktop.py: DesktopManager                                              *)
(***************************************************************************)
\* try: ... except Exception as e: raise cls(f"{text}{e}") -- a call that raised
\* is raised again as cls, a call that returned is passed on
Reraised(cls, text, done) ==
  IF Raised(done.ret) THEN [done EXCEPT !.ret = Raise(cls, text \o @.val)] ELSE done

\* the command lines of the launch strategies, in the order they are tried
MacosCommands(app_name) ==
  << [prog |-> "open -a", arg |-> app_name],
     [prog |-> "open", arg |-> app_name],
     [prog |-> "osascript -e",
      arg |-> <<"tell application \"">> \o app_name \o <<"\" to ", "activate">>] >>

WindowsCommands(app_name) ==
  << [prog |-> "start", arg |-> app_name] >>

LinuxCommands(app_name) ==
  << [prog |-> "", arg |-> app_name],
     [prog |-> "xdg-open", arg |-> app_name],
     [prog |-> "gnome-open", arg |-> app_name],
     [prog |-> "kde-open", arg |-> app_name] >>

\* the external process invocations made so far, as the adapter made them
Invocation(cmd, out) == [ev |-> "process", prog |-> cmd.prog, arg |-> cmd.arg, out |-> out]

\* the strategies the loop gets to, given what each strategy would do (outs):
\* the loop stops at the first strategy whose outcome is in stops
Tried(n, outs, stops) ==
  LET hits == {i \in 1..n : outs[i] \in stops}
  IN  IF hits = {} THEN n ELSE CHOOSE i \in hits : \A j \in hits : i <= j

\* _open_macos_app: the first strategy that exits with 0 wins; a non-zero exit,
\* a timeout and any other exception move on to the next strategy
_open_macos_app(app_name, outs) ==
  LET cmds == MacosCommands(app_name)
      k == Tried(3, outs, {"exit0"})
      calls == [i \in 1..k |-> Invocation(cmds[i], outs[i])]
  IN  IF outs[k] = "exit0"
      THEN [ret |-> Return([pid |-> "None", command |-> cmds[k]]), calls |-> calls]
      ELSE [ret |-> Raise("ComputerTalkError",
                          <<"Could not open ">> \o app_name \o <<" on macOS">>),
            calls |-> calls]

\* _open_windows_app: the exit code of `start` is not looked at; only an
\* exception of subprocess.run (a timeout included) is a failure
_open_windows_app(app_name, outs) ==
  LET cmds == WindowsCommands(app_name)
      calls == <<Invocation(cmds[1], outs[1])>>
  IN  IF outs[1] \in {"exit0", "nonzero"}
      THEN [ret |-> Return([pid |-> "None", command |-> cmds[1]]), calls |-> calls]
      ELSE [ret |-> Raise("ComputerTalkError",
                          <<"Could not open ">> \o app_name \o <<" on Windows: ", outs[1]>>),
            calls |-> calls]

\* _open_linux_app: the first Popen that spawns wins; FileNotFoundError moves
\* on to the next strategy; any other exception ends the loop
_open_linux_app(app_name, outs) ==
  LET cmds == LinuxCommands(app_name)
      k == Tried(4, outs, {"exit0", "nonzero", "oserror"})
      calls == [i \in 1..k |-> Invocation(cmds[i], outs[i])]
  IN  IF outs[k] \in {"exit0", "nonzero"}
      THEN [ret |-> Return([pid |-> "pid", command |-> cmds[k]]), calls |-> calls]
      ELSE IF outs[k] = "oserror"
      THEN [ret |-> Raise("ComputerTalkError",
                          <<"Could not open ">> \o app_name \o <<" on Linux: ", "oserror">>),
            calls |-> calls]
      ELSE [ret |-> Raise("ComputerTalkError",
                          <<"Could not open ">> \o app_name
                             \o <<" on Linux: ", "Could not open ">> \o app_name \o <<" on Linux">>),
            calls |-> calls]

\* f"{app_name}_{int(time.time())}"
AppId(app_name, now) == app_name \o <<"_", ToString(now)>>

\* self.running_apps[app_id] = entry
Store(registry, app_id, entry) ==
  [id \in DOMAIN registry \cup {app_id} |-> IF id = app_id THEN entry ELSE registry[id]]

\* open_application: the launch routine of the host
LaunchOn(system, app_name, outs) ==
  IF system = "darwin" THEN _open_macos_app(app_name, outs)
  ELSE IF system = "windows" THEN _open_windows_app(app_name, outs)
  ELSE IF system = "linux" THEN _open_linux_app(app_name, outs)
  ELSE [ret |-> Raise("ComputerTalkError", <<"Unsupported operating system: ", system>>),
        calls |-> << >>]

\* the entry open_application stores for a launch that returned, and its result
Track(registry, now, app_name, opened) ==
  IF Raised(opened.ret)
  THEN [ret |-> opened.ret, registry |-> registry, calls |-> opened.calls]
  ELSE [ret |-> Return([success |-> TRUE,
                        app_id |-> AppId(app_name, now),
                        app_name |-> app_name,
                        pid |-> opened.ret.val.pid,
                        message |-> <<"Successfully opened ">> \o app_name]),
        registry |-> Store(registry, AppId(app_name, now),
                           [name |-> app_name,
                            pid |-> opened.ret.val.pid,
                            started_at |-> now,
                            status |-> "running"]),
        calls |-> opened.calls]

\* DesktopManager.open_application
open_application(system, registry, now, app_name, outs) ==
  Reraised("ComputerTalkError", <<"Failed to open application ">> \o app_name \o <<": ">>,
           Track(registry, now, app_name, LaunchOn(system, app_name, outs)))

(***************************************************************************)
(* desktop.py: the static catalog of common applications                   *)
(***************************************************************************)
DarwinApps ==
  << [name |-> <<"S","a","f","a","r","i">>, description |-> <<"Web browser">>, command |-> <<"S","a","f","a","r","i">>],
     [name |-> <<"C","h","r","o","m","e">>, description |-> <<"Web browser">>, command |-> <<"G","o","o","g","l","e"," ","C","h","r","o","m","e">>],
     [name |-> <<"F","i","r","e","f","o","x">>, description |-> <<"Web browser">>, command |-> <<"F","i","r","e","f","o","x">>],
     [name |-> <<"T","e","r","m","i","n","a","l">>, description |-> <<"Command line terminal">>, command |-> <<"T","e","r","m","i","n","a","l">>],
     [name |-> <<"F","i","n","d","e","r">>, description |-> <<"File manager">>, command |-> <<"F","i","n","d","e","r">>],
     [name |-> <<"T","e","x","t","E","d","i","t">>, description |-> <<"Text editor">>, command |-> <<"T","e","x","t","E","d","i","t">>],
     [name |-> <<"N","o","t","e","s">>, description |-> <<"Note-taking app">>, command |-> <<"N","o","t","e","s">>],
     [name |-> <<"C","a","l","e","n","d","a","r">>, description |-> <<"Calendar app">>, command |-> <<"C","a","l","e","n","d","a","r">>],
     [name |-> <<"M","a","i","l">>, description |-> <<"Email client">>, command |-> <<"M","a","i","l">>],
     [name |-> <<"M","e","s","s","a","g","e","s">>, description |-> <<"Messaging app">>, command |-> <<"M","e","s","s","a","g","e","s">>],
     [name |-> <<"S","p","o","t","i","f","y">>, description |-> <<"Music streaming">>, command |-> <<"S","p","o","t","i","f","y">>],
     [name |-> <<"V","S","C","o","d","e">>, description |-> <<"Code editor">>, command |-> <<"V","i","s","u","a","l"," ","S","t","u","d","i","o"," ","C","o","d","e">>],
     [name |-> <<"X","c","o","d","e">>, description |-> <<"iOS development">>, command |-> <<"X","c","o","d","e">>],
     [name |-> <<"P","h","o","t","o","s">>, description |-> <<"Photo management">>, command |-> <<"P","h","o","t","o","s">>],
     [name |-> <<"P","r","e","v","i","e","w">>, description |-> <<"PDF and image viewer">>, command |-> <<"P","r","e","v","i","e","w">>] >>

WindowsApps ==
  << [name |-> <<"C","h","r","o","m","e">>, description |-> <<"Web browser">>, command |-> <<"c","h","r","o","m","e">>],
     [name |-> <<"F","i","r","e","f","o","x">>, description |-> <<"Web browser">>, command |-> <<"f","i","r","e","f","o","x">>],
     [name |-> <<"E","d","g","e">>, description |-> <<"Web browser">>, command |-> <<"m","s","e","d","g","e">>],
     [name |-> <<"N","o","t","e","p","a","d">>, description |-> <<"Text editor">>, command |-> <<"n","o","t","e","p","a","d">>],
     [name |-> <<"W","o","r","d">>, description |-> <<"Word processor">>, command |-> <<"w","i","n","w","o","r","d">>],
     [name |-> <<"E","x","c","e","l">>, description |-> <<"Spreadsheet">>, command |-> <<"e","x","c","e","l">>],
     [name |-> <<"P","o","w","e","r","P","o","i","n","t">>, description |-> <<"Presentation">>, command |-> <<"p","o","w","e","r","p","n","t">>],
     [name |-> <<"V","S","C","o","d","e">>, description |-> <<"Code editor">>, command |-> <<"c","o","d","e">>],
     [name |-> <<"C","a","l","c","u","l","a","t","o","r">>, description |-> <<"Calculator app">>, command |-> <<"c","a","l","c">>],
     [name |-> <<"P","a","i","n","t">>, description |-> <<"Image editor">>, command |-> <<"m","s","p","a","i","n","t">>] >>

LinuxApps ==
  << [name |-> <<"C","h","r","o","m","e">>, description |-> <<"Web browser">>, command |-> <<"g","o","o","g","l","e","-","c","h","r","o","m","e">>],
     [name |-> <<"F","i","r","e","f","o","x">>, description |-> <<"Web browser">>, command |-> <<"f","i","r","e","f","o","x">>],
     [name |-> <<"T","e","r","m","i","n","a","l">>, description |-> <<"Command line">>, command |-> <<"g","n","o","m","e","-","t","e","r","m","i","n","a","l">>],
     [name |-> <<"V","S","C","o","d","e">>, description |-> <<"Code editor">>, command |-> <<"c","o","d","e">>],
     [name |-> <<"G","e","d","i","t">>, description |-> <<"Text editor">>, command |-> <<"g","e","d","i","t">>],
     [name |-> <<"L","i","b","r","e","O","f","f","i","c","e">>, description |-> <<"Office suite">>, command |-> <<"l","i","b","r","e","o","f","f","i","c","e">>],
     [name |-> <<"G","I","M","P">>, description |-> <<"Image editor">>, command |-> <<"g","i","m","p">>],
     [name |-> <<"C","a","l","c","u","l","a","t","o","r">>, description |-> <<"Calculator">>, command |-> <<"g","n","o","m","e","-","c","a","l","c","u","l","a","t","o","r">>] >>

\* the keys of the common_apps dictionary, as they are spelled in the source
CommonAppsKeys == {"darwin", "macOS", "Windows", "Linux"}

common_apps(key) ==
  IF key = "darwin" THEN DarwinApps
  ELSE IF key = "macOS" THEN DarwinApps
  ELSE IF key = "Windows" THEN WindowsApps
  ELSE LinuxApps

\* DesktopManager.get_common_apps: common_apps.get(self.system, [])
get_common_apps(system) ==
  IF system \in CommonAppsKeys THEN common_apps(system) ELSE << >>

(***************************************************************************)
(* desktop.py: enumeration of the running processes                        *)
(***************************************************************************)
\* one entry per non-empty name, in order
RECURSIVE SelectApps(_, _)
SelectApps(names, system_tag) ==
  IF names = << >> THEN << >>
  ELSE (IF Head(names) # << >>
        THEN <<[name |-> Head(names), system |-> system_tag]>> ELSE << >>)
       \o SelectApps(Tail(names), system_tag)

\* _list_macos_apps: stdout.split(","), each field stripped, empty fields dropped
_list_macos_apps(out, stdout) ==
  IF out = "exit0"
  THEN LET fields == Split(stdout, <<",">>)
       IN  SelectApps([i \in 1..Len(fields) |-> Strip(fields[i])], "macOS")
  ELSE << >>

\* _list_windows_apps: the lines after the header; the first CSV field of each,
\* without its double quotes
_list_windows_apps(out, stdout) ==
  IF out = "exit0"
  THEN LET lines == Tail(Split(Strip(stdout), <<"\n">>))
       IN  [i \in 1..Len(lines) |->
              [name |-> StripChars(Split(lines[i], <<",">>)[1], {"\""}),
               system |-> "Windows"]]
  ELSE << >>

\* _list_linux_apps: the lines after the header that have at least 11 columns;
\* the 11th column, unless it starts with "[" (a kernel thread)
RECURSIVE LinuxRows(_)
LinuxRows(lines) ==
  IF lines = << >> THEN << >>
  ELSE LET parts == Words(Head(lines))
       IN  (IF Len(parts) >= 11 /\ ~StartsWith(parts[11], <<"[">>)
            THEN <<[name |-> parts[11], system |-> "Linux"]>> ELSE << >>)
           \o LinuxRows(Tail(lines))

_list_linux_apps(out, stdout) ==
  IF out = "exit0"
  THEN LinuxRows(Tail(Split(Strip(stdout), <<"\n">>)))
  ELSE << >>

\* DesktopManager.list_running_apps: never raises; every failure is an empty list
list_running_apps(system, out, stdout) ==
  LET call == <<[ev |-> "process", prog |-> "enumerate", arg |-> << >>, out |-> out]>>
  IN  IF system = "darwin"
      THEN [ret |-> Return(_list_macos_apps(out, stdout)), calls |-> call]
      ELSE IF system = "windows"
      THEN [ret |-> Return(_list_windows_apps(out, stdout)), calls |-> call]
      ELSE IF system = "linux"
      THEN [ret |-> Return(_list_linux_apps(out, stdout)), calls |-> call]
      ELSE [ret |-> Return(<< >>), calls |-> << >>]

\* the largest number of processes the enumeration tool reports
MaxProcesses == 11

\* the numbers of processes the enumeration tool reports
ProcessCounts == {0, 1, 10, MaxProcesses}

ProcessName(i) == <<LowerChars[((i - 1) % 26) + 1]>>

\* the text the enumeration tool of each host prints for n processes
RECURSIVE MacosStdout(_)
MacosStdout(n) ==
  IF n = 0 THEN << >>
  ELSE IF n = 1 THEN ProcessName(1) \o <<"\n">>
  ELSE ProcessName(n) \o <<",", " ">> \o MacosStdout(n - 1)

RECURSIVE WindowsRows(_)
WindowsRows(n) ==
  IF n = 0 THEN << >>
  ELSE <<"\"">> \o ProcessName(n) \o <<"\"", ",", "\"", "7", "\"", "\n">>
         \o WindowsRows(n - 1)

WindowsStdout(n) ==
  <<"\"", "I", "\"", ",", "\"", "P", "\"", "\n">> \o WindowsRows(n)

LinuxColumns ==
  <<"u", " ", "1", " ", "0", " ", "0", " ", "0", " ", "0", " ", "?", " ", "S", " ",
    "0", " ", "0", " ">>

RECURSIVE LinuxLines(_)
LinuxLines(n) ==
  IF n = 0 THEN << >>
  ELSE LinuxColumns \o ProcessName(n) \o <<" ", "-", "v", "\n">> \o LinuxLines(n - 1)

\* a header, a kernel thread, a short line, then n processes
LinuxStdout(n) ==
  <<"U", " ", "P", "\n">> \o LinuxColumns \o <<"[", "k", "]", "\n">>
     \o <<"u", " ", "1", "\n">> \o LinuxLines(n)

Stdout(system, n) ==
  IF system = "darwin" THEN MacosStdout(n)
  ELSE IF system = "windows" THEN WindowsStdout(n)
  ELSE LinuxStdout(n)

\* what list_running_apps returns on a host whose enumeration tool ends with out
\* and reports n processes
RunningAppsOf(system, out, n) == list_running_apps(system, out, Stdout(system, n))


(***************************************************************************)
(* desktop.py: control actions                                             *)
(***************************************************************************)
MacosActions == {"activate", "close", "quit", "minimize", "maximize"}

\* _interact_macos_app
_interact_macos_app(app_name, action, out) ==
  IF action \notin MacosActions
  THEN [ret |-> Raise("ComputerTalkError", <<"Unknown action: ", action>>),
        calls |-> << >>]
  ELSE LET call == <<[ev |-> "process", prog |-> "osascript -e",
                      arg |-> <<"tell application \"">> \o app_name \o <<"\" to ", action>>,
                      out |-> out]>>
       IN  IF out = "exit0"
           THEN [ret |-> Return([success |-> TRUE, action |-> action,
                                 result |-> <<"stdout">>]),
                 calls |-> call]
           ELSE IF out = "nonzero"
           THEN [ret |-> Return([success |-> FALSE, action |-> action,
                                 error |-> <<"stderr">>]),
                 calls |-> call]
           ELSE [ret |-> Raise("ComputerTalkError",
                               <<"Failed to execute action ", action, ": ", out>>),
                 calls |-> call]

\* _interact_windows_app: an acknowledgment, no automation
_interact_windows_app(app_name, action) ==
  [ret |-> Return([success |-> TRUE, action |-> action,
                   message |-> <<"Action ", action, " on ">> \o app_name \o <<" (Windows)">>]),
   calls |-> << >>]

\* _interact_linux_app: an acknowledgment, no automation
_interact_linux_app(app_name, action) ==
  [ret |-> Return([success |-> TRUE, action |-> action,
                   message |-> <<"Action ", action, " on ">> \o app_name \o <<" (Linux)">>]),
   calls |-> << >>]

\* interact_with_app: the control routine of the host
InteractOn(system, app_name, action, out) ==
  IF system = "darwin" THEN _interact_macos_app(app_name, action, out)
  ELSE IF system = "windows" THEN _interact_windows_app(app_name, action)
  ELSE IF system = "linux" THEN _interact_linux_app(app_name, action)
  ELSE [ret |-> Raise("ComputerTalkError", <<"Unsupported operating system: ", system>>),
        calls |-> << >>]

\* DesktopManager.interact_with_app: every exception becomes CommunicationError
desktop_interact_with_app(system, app_name, action, out) ==
  Reraised("CommunicationError", <<"Failed to interact with ">> \o app_name \o <<": ">>,
           InteractOn(system, app_name, action, out))

\* close_app, after the quit action: the entry is marked closed whenever the
\* action returns, whatever its result says; an exception becomes a result
MarkClosed(registry, app_id, done) ==
  IF Raised(done.ret)
  THEN [ret |-> Return([success |-> FALSE, error |-> done.ret.val]),
        registry |-> registry,
        calls |-> done.calls]
  ELSE [ret |-> done.ret,
        registry |-> [registry EXCEPT ![app_id].status = "closed"],
        calls |-> done.calls]

\* DesktopManager.close_app
desktop_close_app(system, registry, app_id, out) ==
  IF app_id \notin DOMAIN registry
  THEN [ret |-> Raise("ComputerTalkError",
                      <<"Application ">> \o app_id \o <<" not found">>),
        registry |-> registry,
        calls |-> << >>]
  ELSE MarkClosed(registry, app_id,
                  desktop_interact_with_app(system, registry[app_id].name, "quit", out))

(***************************************************************************)
(* core.py: ComputerTalk, the session guard and the adapter wrappers       *)
(***************************************************************************)
NotRunning == Raise("CommunicationError", <<"ComputerTalk is not running">>)

\* open_app without the check of self.is_running
OpenAppUnguarded(is_running, system, registry, now, app_name, outs) ==
  Reraised("CommunicationError", <<"Failed to open ">> \o app_name \o <<": ">>,
           open_application(system, registry, now, app_name, outs))

\* ComputerTalk.open_app
open_app(is_running, system, registry, now, app_name, outs) ==
  IF ~is_running
  THEN [ret |-> NotRunning, registry |-> registry, calls |-> << >>]
  ELSE Reraised("CommunicationError", <<"Failed to open ">> \o app_name \o <<": ">>,
                open_application(system, registry, now, app_name, outs))

\* ComputerTalk.list_apps
list_apps(is_running, system) ==
  IF ~is_running
  THEN [ret |-> NotRunning, calls |-> << >>]
  ELSE [ret |-> Return(get_common_apps(system)), calls |-> << >>]

\* ComputerTalk.list_running_apps, on a host whose enumeration tool ends with
\* out and reports n processes
core_list_running_apps(is_running, system, out, n) ==
  IF ~is_running
  THEN [ret |-> NotRunning, calls |-> << >>]
  ELSE RunningAppsOf(system, out, n)

\* ComputerTalk.interact_with_app
interact_with_app(is_running, system, app_name, action, out) ==
  IF ~is_running
  THEN [ret |-> NotRunning, calls |-> << >>]
  ELSE Reraised("CommunicationError", <<"Failed to interact with ">> \o app_name \o <<": ">>,
                desktop_interact_with_app(system, app_name, action, out))

\* ComputerTalk.close_app
close_app(is_running, system, registry, app_id, out) ==
  IF ~is_running
  THEN [ret |-> NotRunning, registry |-> registry, calls |-> << >>]
  ELSE Reraised("CommunicationError", <<"Failed to close app ">> \o app_id \o <<": ">>,
                desktop_close_app(system, registry, app_id, out))

(***************************************************************************)
(* core.py: the App-Specific Messenger                                     *)
(***************************************************************************)
\* _send_imessage: the exit code of the automation host decides; an exception
\* of subprocess.run (a timeout included) is caught and becomes a failure
_send_imessage(recipient, message, out) ==
  LET call == <<[ev |-> "process", prog |-> "osascript -e",
                 arg |-> <<"tell application \"Messages\" keystroke ">> \o recipient
                            \o <<" keystroke ">> \o message,
                 out |-> out]>>
  IN  IF out = "exit0"
      THEN [ret |-> Return([success |-> TRUE, message |-> <<"iMessage sent">>]),
            calls |-> call]
      ELSE IF out = "nonzero"
      THEN [ret |-> Return([success |-> FALSE, message |-> <<"Failed: ", "stderr">>]),
            calls |-> call]
      ELSE [ret |-> Return([success |-> FALSE,
                            message |-> <<"Failed to send iMessage: ", out>>]),
            calls |-> call]

_send_slack_message(recipient, message) ==
  [ret |-> Return([success |-> FALSE,
                   message |-> <<"Slack integration not yet implemented">>]),
   calls |-> << >>]

_send_discord_message(recipient, message) ==
  [ret |-> Return([success |-> FALSE,
                   message |-> <<"Discord integration not yet implemented">>]),
   calls |-> << >>]

\* _send_message_to_app: the channel is chosen by the lower-cased app name
_send_message_to_app(app_name, recipient, message, out) ==
  LET sent ==
        IF Lower(app_name) \in {MessagesApp, MessageApp}
        THEN _send_imessage(recipient, message, out)
        ELSE IF Lower(app_name) = SlackApp
        THEN _send_slack_message(recipient, message)
        ELSE IF Lower(app_name) = DiscordApp
        THEN _send_discord_message(recipient, message)
        ELSE [ret |-> Return([success |-> FALSE,
                              message |-> <<"Message sending not supported for ">>
                                             \o app_name]),
              calls |-> << >>]
      enter == <<[ev |-> "messenger", prog |-> "_send_message_to_app",
                  arg |-> <<app_name, recipient, message>>,
                  out |-> IF sent.ret.val.success THEN "sent" ELSE "failed"]>>
  IN  [ret |-> sent.ret, calls |-> enter \o sent.calls]

(***************************************************************************)
(* core.py: the Intent Parser and the Command Dispatcher                   *)
(***************************************************************************)
\* the seconds the dispatcher sleeps between the launch and the message
SettleDelay == 2

\* the index of the last pattern, from the i-th on, that text contains; 0 if none
LastPattern(text, i) ==
  LET hits == {k \in i..Len(app_patterns) : Contains(text, app_patterns[k])}
  IN  IF hits = {} THEN 0 ELSE CHOOSE k \in hits : \A h \in hits : h <= k

\* the index of the first pattern, from the i-th on, that text contains; 0 if none
RECURSIVE FirstPattern(_, _)
FirstPattern(text, i) ==
  IF i > Len(app_patterns) THEN 0
  ELSE IF Contains(text, app_patterns[i]) THEN i
  ELSE FirstPattern(text, i + 1)

\* _extract_app_name: the first pattern of app_patterns contained in the
\* lower-cased text, else the first word capitalized, else the stripped text
_extract_app_name(command) ==
  LET command_lower == Lower(command)
      hit == FirstPattern(command_lower, 1)
      words == Words(command)
  IN  IF hit # 0
      THEN LET pattern == app_patterns[hit]
           IN  IF pattern \in TitleCasePatterns THEN Title(pattern) ELSE Capitalize(pattern)
      ELSE IF words # << >> THEN Capitalize(words[1])
      ELSE Strip(command)

\* the body separators tried in the other order
SplitBodySayingFirst(message_part) ==
  IF Contains(message_part, SepSaying) THEN SplitOnce(message_part, SepSaying)
  ELSE IF Contains(message_part, SepThatSays) THEN SplitOnce(message_part, SepThatSays)
  ELSE << >>

\* message_part split once on " that says ", else once on " saying ", else not
\* at all
SplitBody(message_part) ==
  IF Contains(message_part, SepThatSays) THEN SplitOnce(message_part, SepThatSays)
  ELSE IF Contains(message_part, SepSaying) THEN SplitOnce(message_part, SepSaying)
  ELSE << >>

\* the parsing half of _handle_open_and_message_command: the separators are
\* looked for in the lower-cased command and split on in the command as typed
ParseMessageCommand(command) ==
  LET lower == Lower(command)
      parts ==
        IF Contains(lower, SepSendMessageTo) THEN Split(command, SepSendMessageTo)
        ELSE IF Contains(lower, SepSendMessage) THEN Split(command, SepSendMessage)
        ELSE << >>
  IN  IF Len(parts) # 2
      THEN [ok |-> FALSE,
            error |-> <<CrossGlyph, "Could not parse message command: ">> \o command]
      ELSE LET app_name == Strip(parts[1])
               message_part == Strip(parts[2])
               body == SplitBody(message_part)
           IN  IF body = << >>
               THEN [ok |-> FALSE,
                     error |-> <<CrossGlyph, "Could not parse message: ">> \o message_part]
               ELSE [ok |-> TRUE,
                     app_name |-> app_name,
                     recipient |-> Strip(body[1]),
                     message_text |-> StripChars(Strip(body[2]), QuoteChars)]

\* self.logger.debug(text): what the logger sink receives
DebugLog(text) == [ev |-> "log", prog |-> "debug", arg |-> <<text>>, out |-> "returned"]

OpenEvent(app_name, ret) ==
  [ev |-> "open", prog |-> "open_app", arg |-> app_name,
   out |-> IF Raised(ret) THEN "raised" ELSE "returned"]

SleepEvent ==
  [ev |-> "sleep", prog |-> "time.sleep", arg |-> <<ToString(SettleDelay)>>, out |-> "returned"]

\* ListEvent: self.list_apps() / self.list_running_apps() and what it returned
ListEvent(prog, ret) ==
  [ev |-> "list", prog |-> prog, arg |-> ret.val,
   out |-> IF Raised(ret) THEN "raised" ELSE "returned"]

\* self.interact_with_app(app_name, action) and how it ended: it raised, or it
\* returned a result that reports success or failure
InteractEvent(app_name, action, ret) ==
  [ev |-> "interact", prog |-> action, arg |-> app_name,
   out |-> IF Raised(ret) THEN "raised"
           ELSE IF ret.val.success THEN "success" ELSE "failure"]

\* the check of the open result left out
OpenNeverFailed(opened) == FALSE

\* the open step failed: open_app raised, or returned a result without success
OpenFailed(opened) == Raised(opened.ret) \/ ~opened.ret.val.success

\* the three responses of the open-then-message sequence
OpenFailureResponse(app_name, opened) ==
  <<CrossGlyph, "Failed to open ">> \o app_name \o <<": ">>
     \o (IF Raised(opened.ret) THEN opened.ret.val ELSE opened.ret.val.message)

SentResponse(app_name, recipient, message_text) ==
  <<CheckGlyph, "Opened ">> \o app_name \o <<" and sent message to ">> \o recipient
     \o <<": '">> \o message_text \o <<"'">>

\* a failed send reported with the words of a sent message
SentAnywayResponse(app_name, reason) ==
  <<CheckGlyph, "Opened ">> \o app_name \o <<" and sent message to ">> \o reason

NotSentResponse(app_name, reason) ==
  <<CheckGlyph, "Opened ">> \o app_name \o <<", but failed to send message: ">> \o reason

\* the sequence after a successful open: the settle delay, the messenger, and
\* the response that says whether the message was sent
SettleThenSend(parsed, opened, sent) ==
  [ret |-> Return(IF Raised(sent.ret)
                  THEN NotSentResponse(parsed.app_name, sent.ret.val)
                  ELSE IF sent.ret.val.success
                  THEN SentResponse(parsed.app_name, parsed.recipient, parsed.message_text)
                  ELSE NotSentResponse(parsed.app_name, sent.ret.val.message)),
   registry |-> opened.registry,
   calls |-> <<OpenEvent(parsed.app_name, opened.ret)>> \o opened.calls
               \o <<SleepEvent>> \o sent.calls]

\* the sequence after open_app has ended: a failed open ends it
OpenThenSend(parsed, opened, out) ==
  IF OpenFailed(opened)
  THEN [ret |-> Return(OpenFailureResponse(parsed.app_name, opened)),
        registry |-> opened.registry,
        calls |-> <<OpenEvent(parsed.app_name, opened.ret)>> \o opened.calls]
  ELSE SettleThenSend(parsed, opened,
                      _send_message_to_app(parsed.app_name, parsed.recipient,
                                           parsed.message_text, out))

\* _handle_open_and_message_command: parse, open, settle delay, send
_handle_open_and_message_command(is_running, system, registry, now, command, env) ==
  LET parsed == ParseMessageCommand(command)
  IN  IF ~parsed.ok
      THEN [ret |-> Return(parsed.error), registry |-> registry, calls |-> << >>]
      ELSE OpenThenSend(parsed,
                        open_app(is_running, system, registry, now, parsed.app_name,
                                 env.launch),
                        env.msgr)

\* the action command after open_app has ended: the action is only announced
OpenThenAct(app_name, action, opened) ==
  IF OpenFailed(opened)
  THEN [ret |-> Return(OpenFailureResponse(app_name, opened)),
        registry |-> opened.registry,
        calls |-> <<OpenEvent(app_name, opened.ret)>> \o opened.calls]
  ELSE [ret |-> Return(<<CheckGlyph, "Opened ">> \o app_name \o <<". Action '">>
                          \o action \o <<"' would be executed here.">>),
        registry |-> opened.registry,
        calls |-> <<OpenEvent(app_name, opened.ret)>> \o opened.calls]

\* _handle_open_and_action_command: " and " is split on in the command as typed
_handle_open_and_action_command(is_running, system, registry, now, command, env) ==
  LET parts == SplitOnce(command, SepAnd)
  IN  IF Len(parts) # 2
      THEN [ret |-> Return(<<CrossGlyph, "Could not parse action command: ">> \o command),
            registry |-> registry,
            calls |-> << >>]
      ELSE OpenThenAct(Strip(parts[1]), Strip(parts[2]),
                       open_app(is_running, system, registry, now, Strip(parts[1]),
                                env.launch))

\* the simple open after open_app has ended
OpenOnly(app_name, opened) ==
  [ret |-> IF Raised(opened.ret)
           THEN Return(<<CrossGlyph, "Failed to open ">> \o app_name \o <<": ">>
                          \o opened.ret.val)
           ELSE Return(<<CheckGlyph>> \o opened.ret.val.message),
   registry |-> opened.registry,
   calls |-> <<OpenEvent(app_name, opened.ret)>> \o opened.calls]

\* self.logger.debug(text) before the rest of the branch
Logged(text, done) == [done EXCEPT !.calls = <<DebugLog(text)>> \o @]

\* _handle_open_command: the sub-parser of the text after "open "
_handle_open_command(is_running, system, registry, now, message, env) ==
  LET command == Strip(DropFirst(message, 5))
      lower == Lower(command)
  IN  IF Contains(lower, SepSendMessageTo) \/ Contains(lower, SepSendMessage)
      THEN Logged("Detected message command",
                  _handle_open_and_message_command(is_running, system, registry, now,
                                                   command, env))
      ELSE IF Contains(lower, SepAnd)
      THEN Logged("Detected action command",
                  _handle_open_and_action_command(is_running, system, registry, now,
                                                  command, env))
      ELSE Logged("Detected simple app opening",
                  OpenOnly(_extract_app_name(command),
                           open_app(is_running, system, registry, now,
                                    _extract_app_name(command), env.launch)))

\* the number of entries a listing shows
DisplayLimit == 10

Bullet == "(bullet) "

\* apps where the code has apps[:10]
Whole(seq, n) == seq

First(seq, n) == SubSeq(seq, 1, IF Len(seq) < n THEN Len(seq) ELSE n)

\* "\n".join(lines)
RECURSIVE JoinLines(_)
JoinLines(lines) ==
  IF lines = << >> THEN << >>
  ELSE IF Len(lines) = 1 THEN lines[1]
  ELSE lines[1] \o <<"\n">> \o JoinLines(Tail(lines))

\* the "list apps" branch of _process_message
ListAppsResponse(ret) ==
  LET apps == ret.val
      shown == First(apps, DisplayLimit)
  IN  IF Raised(ret)
      THEN <<CrossGlyph, "Failed to list apps: ">> \o ret.val
      ELSE IF apps # << >>
      THEN <<"Available apps:\n">>
             \o JoinLines([i \in 1..Len(shown) |->
                             <<Bullet>> \o shown[i].name \o <<": ">> \o shown[i].description])
             \o <<"\n\n(Showing first 10 apps)">>
      ELSE <<"No apps available">>

\* the "running apps" branch of _process_message
RunningAppsResponse(ret) ==
  LET apps == ret.val
      shown == First(apps, DisplayLimit)
  IN  IF Raised(ret)
      THEN <<CrossGlyph, "Failed to list running apps: ">> \o ret.val
      ELSE IF apps # << >>
      THEN <<"Running apps:\n">>
             \o JoinLines([i \in 1..Len(shown) |-> <<Bullet>> \o shown[i].name])
             \o <<"\n\n(Showing first 10 apps)">>
      ELSE <<"No running apps detected">>

\* the "close " branch without its except clause: the KeyError of a result
\* without a message leaves _process_message
CloseResponseUncaught(app_name, ret) ==
  IF Raised(ret)
  THEN Return(<<CrossGlyph, "Failed to close ">> \o app_name \o <<": ">> \o ret.val)
  ELSE IF "message" \notin DOMAIN ret.val
  THEN Raise("KeyError", <<"'message'">>)
  ELSE Return(<<CheckGlyph>> \o ret.val.message)

\* the "close " branch of _process_message: result['message'] raises KeyError
\* when the result has no message, and the branch catches it
CloseResponse(app_name, ret) ==
  IF Raised(ret)
  THEN Return(<<CrossGlyph, "Failed to close ">> \o app_name \o <<": ">> \o ret.val)
  ELSE IF "message" \notin DOMAIN ret.val
  THEN Return(<<CrossGlyph, "Failed to close ">> \o app_name \o <<": ", "'message'">>)
  ELSE Return(<<CheckGlyph>> \o ret.val.message)

\* the cascade with the task rule written as a substring test
ClassifyTaskAnywhere(lower) ==
  IF StartsWith(lower, PrefixHello) THEN "hello"
  ELSE IF StartsWith(lower, PrefixTime) THEN "time"
  ELSE IF StartsWith(lower, PrefixStatus) THEN "status"
  ELSE IF Contains(lower, PrefixTask) THEN "task"
  ELSE IF StartsWith(lower, PrefixClearTask) THEN "clear task"
  ELSE IF StartsWith(lower, PrefixOpen) THEN "open"
  ELSE IF lower = PrefixListApps \/ StartsWith(lower, PrefixListApps) THEN "list apps"
  ELSE IF lower = PrefixRunningApps \/ StartsWith(lower, PrefixRunningApps) THEN "running apps"
  ELSE IF StartsWith(lower, PrefixClose) THEN "close"
  ELSE "echo"

\* the cascade of prefix tests of _process_message on the lower-cased line, in
\* the order of the source: the branch that handles the line
Classify(lower) ==
  IF StartsWith(lower, PrefixHello) THEN "hello"
  ELSE IF StartsWith(lower, PrefixTime) THEN "time"
  ELSE IF StartsWith(lower, PrefixStatus) THEN "status"
  ELSE IF StartsWith(lower, PrefixTask) THEN "task"
  ELSE IF StartsWith(lower, PrefixClearTask) THEN "clear task"
  ELSE IF StartsWith(lower, PrefixOpen) THEN "open"
  ELSE IF lower = PrefixListApps \/ StartsWith(lower, PrefixListApps) THEN "list apps"
  ELSE IF lower = PrefixRunningApps \/ StartsWith(lower, PrefixRunningApps) THEN "running apps"
  ELSE IF StartsWith(lower, PrefixClose) THEN "close"
  ELSE "echo"

\* a branch that leaves the task description alone
WithTask(task, done) ==
  [ret |-> done.ret, registry |-> done.registry, task |-> task, calls |-> done.calls]

\* _process_message: what each branch does
_process_message(is_running, system, registry, now, task, message, env) ==
  LET branch == Classify(Lower(message))
      Plain(text) ==
        [ret |-> Return(text), registry |-> registry, task |-> task, calls |-> << >>]
  IN  IF branch = "hello"
      THEN Plain(<<"Hello! I received your message: ">> \o message)
      ELSE IF branch = "time"
      THEN Plain(<<"Current time: ", ToString(now)>>)
      ELSE IF branch = "status"
      THEN Plain(<<"Status: Running, uptime: ", ToString(now), " seconds">>)
      ELSE IF branch = "task"
      THEN IF task # << >>
           THEN Plain(<<"Your current task: ">> \o task)
           ELSE Plain(<<"No task description set. Run 'computer-talk --interactive' to set one.">>)
      ELSE IF branch = "clear task"
      THEN [ret |-> Return(<<CheckGlyph, "Task cleared. You can set a new one anytime.">>),
            registry |-> registry, task |-> << >>, calls |-> << >>]
      ELSE IF branch = "open"
      THEN WithTask(task, Logged("Processing open message",
                                 _handle_open_command(is_running, system, registry, now,
                                                      message, env)))
      ELSE IF branch = "list apps"
      THEN LET listed == list_apps(is_running, system)
           IN  [ret |-> Return(ListAppsResponse(listed.ret)),
                registry |-> registry, task |-> task,
                calls |-> <<ListEvent("list_apps", listed.ret)>> \o listed.calls]
      ELSE IF branch = "running apps"
      THEN LET listed == core_list_running_apps(is_running, system, env.enum, env.processes)
           IN  [ret |-> Return(RunningAppsResponse(listed.ret)),
                registry |-> registry, task |-> task,
                calls |-> <<ListEvent("list_running_apps", listed.ret)>> \o listed.calls]
      ELSE IF branch = "close"
      THEN LET app_name == Strip(DropFirst(message, 6))
               done == interact_with_app(is_running, system, app_name, "quit", env.ctrl)
           IN  [ret |-> CloseResponse(app_name, done.ret),
                registry |-> registry, task |-> task,
                calls |-> <<InteractEvent(app_name, "quit", done.ret)>> \o done.calls]
      ELSE Plain(<<"Echo: ">> \o message)

\* ComputerTalk.send_message: the session guard, then _process_message; an
\* exception of _process_message becomes CommunicationError
send_message(is_running, system, registry, now, task, message, env) ==
  IF ~is_running
  THEN [ret |-> NotRunning, registry |-> registry, task |-> task, calls |-> << >>]
  ELSE Reraised("CommunicationError", <<"Failed to send message: ">>,
                _process_message(is_running, system, registry, now, task, message, env))

(***************************************************************************)
(* The inputs of the model                                                *)
(***************************************************************************)
\* the lines typed in the session
Commands ==
  { <<"h","e","l","l","o"," ","t","h","e","r","e">>,
    <<"o","p","e","n"," ","c","h","r","o","m","e">>,
    <<"O","p","e","n"," ","M","e","s","s","a","g","e","s"," ","a","n","d"," ","s","e","n","d"," ","a"," ","m","e","s","s","a","g","e"," ","t","o"," ","A","v","e","r","y"," ","t","h","a","t"," ","s","a","y","s"," ","'","h","i","'">>,
    <<"c","l","o","s","e"," ","c","h","r","o","m","e">> }

\* the application names passed to the adapter wrappers directly
ApiAppNames == { <<"C","h","r","o","m","e">>, <<"M","e","s","s","a","g","e","s">> }

ApiActions == {"quit", "dance"}

\* an app_id that no launch has produced
UnknownAppId == <<"g","h","o","s","t">> \o <<"_", "0">>

TaskText == <<"s","h","i","p"," ","i","t">>

\* the number of launch strategies of each host
Strategies(system) == IF system = "darwin" THEN 3 ELSE IF system = "linux" THEN 4 ELSE 1

\* what the launch strategies of the host would do, one outcome per strategy;
\* the strategies after the one that ends the loop are never run
LaunchOutcomes(system) ==
  LET n == Strategies(system)
      outs == IF system = "linux" THEN PopenOutcomes ELSE ProcOutcomes
      stops == IF system = "darwin" THEN {"exit0"}
               ELSE IF system = "linux" THEN {"exit0", "nonzero", "oserror"}
               ELSE outs
  IN  IF system \notin {"darwin", "windows", "linux"} THEN {<<"exit0">>}
      ELSE {v \in [1..n -> outs] :
              \A i \in 1..n : (\E j \in 1..(i - 1) : v[j] \in stops) => v[i] = "exit0"}

\* the hosts on which every launch strategy gets the same answer
SameAnswer(system) ==
  IF system \notin {"darwin", "windows", "linux"} THEN {<<"exit0">>}
  ELSE {[i \in 1..Strategies(system) |-> o] :
          o \in IF system = "linux" THEN PopenOutcomes ELSE ProcOutcomes}

DefaultEnv ==
  [launch |-> <<"exit0", "exit0", "exit0", "exit0">>, msgr |-> "exit0",
   ctrl |-> "exit0", enum |-> "exit0", processes |-> 0]

\* the answers of the host that the handling of message can depend on, given
\* the answers the launch strategies can get
Envs(system, message, launches) ==
  LET lower == Lower(message)
  IN  IF StartsWith(lower, PrefixOpen)
      THEN {[DefaultEnv EXCEPT !.launch = l, !.msgr = m] :
              l \in launches,
              m \in IF Contains(lower, SepSendMessage) THEN ProcOutcomes ELSE {"exit0"}}
      ELSE IF StartsWith(lower, PrefixRunningApps)
      THEN {[DefaultEnv EXCEPT !.enum = e, !.processes = n] :
              e \in ProcOutcomes, n \in ProcessCounts}
      ELSE IF StartsWith(lower, PrefixClose)
      THEN {[DefaultEnv EXCEPT !.ctrl = c] : c \in ProcOutcomes}
      ELSE {DefaultEnv}

\* the lines whose classification is checked: a head word, as typed, in upper
\* case or capitalized, followed by a tail
HeadWords ==
  { <<"h","e","l","l","o">>,
    <<"t","i","m","e">>,
    <<"s","t","a","t","u","s">>,
    <<"c","l","e","a","r"," ","t","a","s","k">>,
    <<"t","a","s","k">>,
    <<"o","p","e","n"," ">>,
    <<"l","i","s","t"," ","a","p","p","s">>,
    <<"r","u","n","n","i","n","g"," ","a","p","p","s">>,
    <<"c","l","o","s","e"," ">>,
    <<"h","e","l","l">>,
    <<"t","a","s">>,
    <<"c","l","e","a","r">>,
    <<"c","l","e","a","r"," ","t","a","s">>,
    <<"o","p","e","n">>,
    <<"c","l","o","s","e">>,
    <<"l","i","s","t"," ","a","p","p">>,
    <<"r","u","n","n","i","n","g">>,
    <<"w","h","a","t">>,
    <<" ","h","e","l","l","o">>,
    <<"m","y"," ","t","a","s","k">> }

Tails ==
  { <<>>,
    <<" ","n","o","w">>,
    <<"s">>,
    <<"x"," ","y">> }

Upper(s) == [i \in 1..Len(s) |-> UpperChar(s[i])]

ClassifyLines ==
  {c \o t : c \in UNION {{h, Upper(h), Capitalize(h)} : h \in HeadWords}, t \in Tails}

\* the parts the message commands are assembled from
AppParts ==
  { <<"m","e","s","s","a","g","e","s">>,
    <<"S","l","a","c","k">>,
    <<"c","h","r","o","m","e">>,
    <<>>,
    <<" ","n","o","t","e","s"," ">>,
    <<"x"," ","a","n","d"," ","s","e","n","d"," ","a"," ","m","e","s","s","a","g","e"," ","t","o">> }

RecipientParts ==
  { <<"A","v","e","r","y">>,
    <<>>,
    <<" ","b","o"," ">>,
    <<"y"," ","t","h","a","t"," ","s","a","y","s">>,
    <<"y"," ","s","a","y","i","n","g"," ","z">> }

BodyParts ==
  { <<"h","i"," ","t","h","e","r","e">>,
    <<"'","h","i","'">>,
    <<"\"","i","t"," ","w","o","r","k","s","!","\"">>,
    <<>>,
    <<" ","'"," ","h","i"," ","'"," ">>,
    <<"'">>,
    <<"m"," ","s","a","y","i","n","g"," ","x">>,
    <<"t","h","a","t"," ","s","a","y","s"," ","x">>,
    <<"x"," ","a","n","d"," ","s","e","n","d"," ","a"," ","m","e","s","s","a","g","e"," ","t","o"," ","y"," ","t","h","a","t"," ","s","a","y","s"," ","z">> }

BodySeps == {SepThatSays, SepSaying}

\* "open a and send a message to r that says m"
MessageLine(a, r, sep, m) == PrefixOpen \o a \o SepSendMessageTo \o r \o sep \o m

MessageLines ==
  {MessageLine(a, r, sep, m) :
     a \in AppParts, r \in RecipientParts, sep \in BodySeps, m \in BodyParts}

OtherLines ==
  { <<"o","p","e","n"," ","s","l","a","c","k"," ","a","n","d"," ","s","e","n","d"," ","a"," ","m","e","s","s","a","g","e"," ","b","o"," ","s","a","y","i","n","g"," ","y","o">>,
    <<"O","p","e","n"," ","D","i","s","c","o","r","d"," ","A","n","d"," ","S","e","n","d"," ","A"," ","M","e","s","s","a","g","e"," ","T","o"," ","A","l"," ","S","a","y","i","n","g"," ","H","i">>,
    <<"o","p","e","n"," ","n","o","t","e","s"," ","a","n","d"," ","p","r","i","n","t">>,
    <<"o","p","e","n"," ","N","o","t","e","s"," ","A","N","D"," ","p","r","i","n","t">>,
    <<"o","p","e","n"," "," ">>,
    <<"o","p","e","n"," ","m","y"," ","v","s","c","o","d","e"," ","p","l","e","a","s","e">>,
    <<"o","p","e","n"," ","x","c","o","d","e">> }

\* the texts the app-name extractor is given: each known token alone, and
\* texts with two tokens, a token inside a longer one, upper case, and no token
ExtractorTexts ==
  {app_patterns[k] : k \in 1..Len(app_patterns)} \cup
  { <<"c","h","r","o","m","e"," ","m","a","i","l">>,
    <<"m","y"," ","e","m","a","i","l">>,
    <<"C","H","R","O","M","E"," ","N","o","w">>,
    <<"f","o","o","B","a","r"," ","b","a","z">>,
    <<" "," ","s","a","f","a","r","i"," "," ">>,
    <<"X","c","o","d","e","-","b","e","t","a">> }

ExtractorLines == {PrefixOpen \o t : t \in ExtractorTexts}

\* message commands whose message separator is not typed in lower case
CasedLines ==
  { <<"o","p","e","n"," ","S","l","a","c","k"," ","A","N","D"," ","S","E","N","D"," ","A"," ","M","E","S","S","A","G","E"," ","T","O"," ","b","o"," ","s","a","y","i","n","g"," ","h","i">>,
    <<"o","p","e","n"," ","M","e","s","s","a","g","e","s"," ","A","n","d"," ","S","e","n","d"," ","A"," ","M","e","s","s","a","g","e"," ","T","o"," ","A","l"," ","t","h","a","t"," ","s","a","y","s"," ","h","i">>,
    <<"o","p","e","n"," ","s","l","a","c","k"," ","a","n","d"," ","s","e","n","d"," ","a"," ","m","e","s","s","a","g","e"," ","T","o"," ","b","o"," ","s","a","y","i","n","g"," ","h","i">>,
    <<"o","p","e","n"," ","M","e","s","s","a","g","e","s"," ","A","n","d"," ","S","e","n","d"," ","A"," ","M","e","s","s","a","g","e"," ","A","l"," ","s","a","y","i","n","g"," ","h","i">> }

Lines == Commands \cup ClassifyLines \cup MessageLines \cup OtherLines \cup ExtractorLines
           \cup CasedLines

(***************************************************************************)
(* The session as a state machine                                          *)
(***************************************************************************)
VARIABLES
  is_running,        \* ComputerTalk.is_running
  system,            \* DesktopManager.system
  running_apps,      \* DesktopManager.running_apps: app_id -> TrackedApp
  now,               \* int(time.time())
  task_description,  \* the task description kept by the configuration
  line,              \* the line read from the user, when one is waiting
  outcome,           \* the last call of the public interface and how it ended
  calls              \* what that call did, in order: logs, adapter calls, processes

vars == <<is_running, system, running_apps, now, task_description, line, outcome, calls>>

Outcome(op, arg, ret) == [op |-> op, arg |-> arg, exc |-> ret.exc, val |-> ret.val]

Init ==
  /\ is_running = FALSE
  /\ system \in Systems
  /\ running_apps = << >>
  /\ now = 0
  /\ task_description = << >>
  /\ line = << >>
  /\ outcome = Outcome("__init__", << >>, Return(<< >>))
  /\ calls = << >>

\* ComputerTalk.start
Start ==
  /\ IF is_running
     THEN /\ outcome' = Outcome("start", << >>,
                                Raise("ComputerTalkError", <<"ComputerTalk is already running">>))
          /\ UNCHANGED is_running
     ELSE /\ outcome' = Outcome("start", << >>, Return(<< >>))
          /\ is_running' = TRUE
  /\ calls' = << >>
  /\ UNCHANGED <<system, running_apps, now, task_description, line>>

\* ComputerTalk.stop
Stop ==
  /\ IF ~is_running
     THEN /\ outcome' = Outcome("stop", << >>,
                                Raise("ComputerTalkError", <<"ComputerTalk is not running">>))
          /\ UNCHANGED is_running
     ELSE /\ outcome' = Outcome("stop", << >>, Return(<< >>))
          /\ is_running' = FALSE
  /\ calls' = << >>
  /\ UNCHANGED <<system, running_apps, now, task_description, line>>

\* the wall clock reaches the next second
Tick ==
  /\ now < MaxClock
  /\ now' = now + 1
  /\ UNCHANGED <<is_running, system, running_apps, task_description, line, outcome, calls>>

\* the registry stays within the bound of the model
Tracked(registry) == Cardinality(DOMAIN registry) <= MaxTracked

\* ComputerTalk.send_message(message) against a host that answers as env says
Dispatch(message, env) ==
  \E done \in {send_message(is_running, system, running_apps, now, task_description,
                            message, env)} :
      /\ Tracked(done.registry)
      /\ outcome' = Outcome("send_message", message, done.ret)
      /\ calls' = done.calls
      /\ running_apps' = done.registry
      /\ task_description' = done.task
      /\ UNCHANGED <<is_running, system, now, line>>

SendMessage ==
  \E message \in Commands : \E env \in Envs(system, message, SameAnswer(system)) :
    Dispatch(message, env)

\* ComputerTalk.open_app(app_name)
OpenApp ==
  \E app_name \in ApiAppNames : \E outs \in SameAnswer(system) :
    \E done \in {open_app(is_running, system, running_apps, now, app_name, outs)} :
        /\ Tracked(done.registry)
        /\ outcome' = Outcome("open_app", app_name, done.ret)
        /\ calls' = done.calls
        /\ running_apps' = done.registry
        /\ UNCHANGED <<is_running, system, now, task_description, line>>

\* ComputerTalk.list_apps()
ListApps ==
  \E done \in {list_apps(is_running, system)} :
      /\ outcome' = Outcome("list_apps", << >>, done.ret)
      /\ calls' = done.calls
      /\ UNCHANGED <<is_running, system, running_apps, now, task_description, line>>

\* ComputerTalk.list_running_apps()
ListRunningApps ==
  \E out \in ProcOutcomes : \E n \in ProcessCounts :
    \E done \in {core_list_running_apps(is_running, system, out, n)} :
        /\ outcome' = Outcome("list_running_apps", << >>, done.ret)
        /\ calls' = done.calls
        /\ UNCHANGED <<is_running, system, running_apps, now, task_description, line>>

\* ComputerTalk.interact_with_app(app_name, action)
InteractWithApp ==
  \E app_name \in ApiAppNames : \E action \in ApiActions : \E out \in ProcOutcomes :
    \E done \in {interact_with_app(is_running, system, app_name, action, out)} :
        /\ outcome' = Outcome("interact_with_app", <<app_name, action>>, done.ret)
        /\ calls' = done.calls
        /\ UNCHANGED <<is_running, system, running_apps, now, task_description, line>>

\* ComputerTalk.close_app(app_id)
CloseApp ==
  \E app_id \in DOMAIN running_apps \cup {UnknownAppId} : \E out \in ProcOutcomes :
    \E done \in {close_app(is_running, system, running_apps, app_id, out)} :
        /\ outcome' = Outcome("close_app", app_id, done.ret)
        /\ calls' = done.calls
        /\ running_apps' = done.registry
        /\ UNCHANGED <<is_running, system, now, task_description, line>>

Next ==
  \/ Start
  \/ Stop
  \/ Tick
  \/ SendMessage
  \/ OpenApp
  \/ ListApps
  \/ ListRunningApps
  \/ InteractWithApp
  \/ CloseApp

\* the session: any sequence of calls of the public interface
Spec == Init /\ [][Next]_vars

(***************************************************************************)
(* One line, dispatched once by a running session, against every answer    *)
(* the host can give                                                       *)
(***************************************************************************)
InitLine ==
  /\ is_running = TRUE
  /\ system \in Systems
  /\ running_apps = << >>
  /\ now = 0
  /\ line \in Lines
  /\ task_description \in {<< >>, TaskText}
  /\ (task_description # << >> => Contains(Lower(line), PrefixTask))
  /\ outcome = Outcome("__init__", << >>, Return(<< >>))
  /\ calls = << >>

HandleLine ==
  /\ outcome.op = "__init__"
  /\ \E env \in Envs(system, line, LaunchOutcomes(system)) : Dispatch(line, env)

NextLine == HandleLine

LineSpec == InitLine /\ [][NextLine]_vars

(***************************************************************************)
(* Properties                                                              *)
(***************************************************************************)
\* send_message has been called on the line and has ended
Handled == outcome.op = "send_message"

\* send_message returned a response
Responded == Handled /\ outcome.exc = "none"

\* the events of kind ev among the calls of the last operation
EventsOf(ev) == {i \in 1..Len(calls) : calls[i].ev = ev}

\* some external process of the last operation ended in one of outs
SomeProcess(outs) == \E i \in EventsOf("process") : calls[i].out \in outs

\* C1: while the session is running, send_message returns exactly one response
\* string for every line and every answer of the host (failed launches, failed or
\* raising control actions, failed enumerations, failed messenger, timeouts);
\* no error reaches the caller as an exception.
C1_AlwaysOneResponse ==
  (Handled /\ is_running) =>
    /\ outcome.exc = "none"
    /\ outcome.val \in Seq(STRING)
    /\ outcome.val # << >>

\* a close command whose control action timed out, and that was answered
C1_Witness ==
  /\ Responded
  /\ is_running
  /\ StartsWith(Lower(line), PrefixClose)
  /\ SomeProcess({"timeout"})
  /\ outcome.val[1] = CrossGlyph

\* the rules of the classification in the order the specification lists them
RuleOrder ==
  << [prefix |-> PrefixHello, intent |-> "Hello"],
     [prefix |-> PrefixTime, intent |-> "TimeQuery"],
     [prefix |-> PrefixStatus, intent |-> "StatusQuery"],
     [prefix |-> PrefixClearTask, intent |-> "TaskClear"],
     [prefix |-> PrefixTask, intent |-> "TaskQuery"],
     [prefix |-> PrefixOpen, intent |-> "Open"],
     [prefix |-> PrefixListApps, intent |-> "ListApps"],
     [prefix |-> PrefixRunningApps, intent |-> "ListRunningApps"],
     [prefix |-> PrefixClose, intent |-> "CloseApp"] >>

\* the intent of the first rule whose case-insensitive prefix test matches
FirstRuleIntent(text) ==
  LET matching == {i \in 1..Len(RuleOrder) : StartsWith(Lower(text), RuleOrder[i].prefix)}
  IN  IF matching = {} THEN "Echo"
      ELSE RuleOrder[CHOOSE i \in matching : \A j \in matching : i <= j].intent

\* the intent the answer to the line shows
AnsweredIntent ==
  LET response == outcome.val
  IN  IF calls # << >> /\ calls[1] = DebugLog("Processing open message") THEN "Open"
      ELSE IF calls # << >> /\ calls[1].ev = "list" /\ calls[1].prog = "list_apps"
      THEN "ListApps"
      ELSE IF calls # << >> /\ calls[1].ev = "list" /\ calls[1].prog = "list_running_apps"
      THEN "ListRunningApps"
      ELSE IF response[1] = "Hello! I received your message: " THEN "Hello"
      ELSE IF response[1] = "Current time: " THEN "TimeQuery"
      ELSE IF response[1] = "Status: Running, uptime: " THEN "StatusQuery"
      ELSE IF response = <<CheckGlyph, "Task cleared. You can set a new one anytime.">>
      THEN "TaskClear"
      ELSE IF response[1] \in {"Your current task: ",
                               "No task description set. Run 'computer-talk --interactive' to set one."}
      THEN "TaskQuery"
      ELSE IF response[1] = "Echo: " THEN "Echo"
      ELSE IF \/ (response[1] = CrossGlyph /\ response[2] = "Failed to close ")
              \/ (response[1] = CheckGlyph /\ response[2] = "Action ")
      THEN "CloseApp"
      ELSE "none"

\* C2: the line is handled by the first rule, in the order hello, time, status,
\* clear task, task, open, list apps, running apps, close, whose case-insensitive
\* prefix test matches; a line starting with "clear task" clears the task and is
\* not answered as a task query; a line matching no rule is echoed verbatim.
C2_FirstRuleWins ==
  Responded =>
    /\ AnsweredIntent = FirstRuleIntent(line)
    /\ (StartsWith(Lower(line), PrefixClearTask) =>
          AnsweredIntent = "TaskClear" /\ task_description = << >>)
    /\ (FirstRuleIntent(line) = "Echo" => outcome.val = <<"Echo: ">> \o line)

\* "clear task now", typed while a task is set, cleared the task
C2_Witness ==
  /\ Responded
  /\ line = PrefixClearTask \o <<" ","n","o","w">>
  /\ AnsweredIntent = "TaskClear"
  /\ task_description = << >>

\* text without its leading and trailing blanks
RECURSIVE Trimmed(_)
Trimmed(s) ==
  IF s = << >> THEN s
  ELSE IF Head(s) \in {" ", "\t", "\n"} THEN Trimmed(Tail(s))
  ELSE IF s[Len(s)] \in {" ", "\t", "\n"} THEN Trimmed(SubSeq(s, 1, Len(s) - 1))
  ELSE s

\* text without the single and double quote characters around it
RECURSIVE Unquoted(_)
Unquoted(s) ==
  IF s = << >> THEN s
  ELSE IF Head(s) \in {"'", "\""} THEN Unquoted(Tail(s))
  ELSE IF s[Len(s)] \in {"'", "\""} THEN Unquoted(SubSeq(s, 1, Len(s) - 1))
  ELSE s

\* the words of the separators, without the blanks around them
PhraseSendTo == <<"a","n","d"," ","s","e","n","d"," ","a"," ","m","e","s","s","a","g","e"," ","t","o">>

PhraseThatSays == <<"t","h","a","t"," ","s","a","y","s">>

PhraseSaying == <<"s","a","y","i","n","g">>

\* the line was handled as an open-and-message command
IsMessageCommand == Len(calls) >= 2 /\ calls[2] = DebugLog("Detected message command")

\* the handler opened app_name, and what it gave the messenger, if it got that
\* far, was app_name, recipient and message_text
ParsedAs(app_name, recipient, message_text) ==
  /\ IsMessageCommand
  /\ Len(calls) >= 3
  /\ calls[3].ev = "open"
  /\ calls[3].arg = app_name
  /\ \A i \in EventsOf("messenger") : calls[i].arg = <<app_name, recipient, message_text>>

\* a, r and m are not blank, none holds the words "and send a message to", r
\* does not hold "that says" and, when the body separator is " saying ", m does
\* not hold "that says" and r does not hold "saying"
C3_Covered(a, r, sep, m) ==
  /\ Trimmed(a) # << >>
  /\ Trimmed(r) # << >>
  /\ Trimmed(m) # << >>
  /\ \A x \in {a, r, m} : ~Contains(x, PhraseSendTo)
  /\ ~Contains(r, PhraseThatSays)
  /\ (sep = SepSaying => ~Contains(m, PhraseThatSays) /\ ~Contains(r, PhraseSaying))

\* C3 (amended): for every app name a, recipient r and body m that are not blank,
\* that hold none of the words "and send a message to", with no "that says" in r
\* and, in the " saying " form, no "that says" in m and no "saying" in r, the
\* line "open a and send a message to r that says m" (and the same with
\* " saying ") is handled as an open-and-message command with app_name = a
\* trimmed, recipient = r trimmed and message_text = m trimmed and then without
\* the quote characters around it; " that says " is the separator used when
\* both occur.
C3_RoundTrip ==
  Responded =>
    \A a \in AppParts :
      StartsWith(line, PrefixOpen \o a \o SepSendMessageTo) =>
        \A r \in RecipientParts :
          StartsWith(line, PrefixOpen \o a \o SepSendMessageTo \o r) =>
            \A sep \in BodySeps : \A m \in BodyParts :
              (line = MessageLine(a, r, sep, m) /\ C3_Covered(a, r, sep, m)) =>
                ParsedAs(Trimmed(a), Trimmed(r), Unquoted(Trimmed(m)))

\* "open messages and send a message to Avery that says hi there" was parsed
\* and the message went out
C3_Witness ==
  /\ Responded
  /\ line = MessageLine(<<"m","e","s","s","a","g","e","s">>, <<"A","v","e","r","y">>,
                        SepThatSays, <<"h","i"," ","t","h","e","r","e">>)
  /\ \E i \in EventsOf("messenger") :
       /\ calls[i].out = "sent"
       /\ calls[i].arg = <<<<"m","e","s","s","a","g","e","s">>, <<"A","v","e","r","y">>, <<"h","i"," ","t","h","e","r","e">>>>

\* x holds none of the separators
NoSeparator(x) ==
  \A sep \in {SepSendMessageTo, SepSendMessage, SepThatSays, SepSaying} : ~Contains(x, sep)

\* C3 as stated: every a, r and m that contain none of the separators come back
\* as app_name = a, recipient = r and message_text = m without the quote
\* characters around it.
C3_AsStated ==
  Responded =>
    \A a \in AppParts :
      StartsWith(line, PrefixOpen \o a \o SepSendMessageTo) =>
        \A r \in RecipientParts :
          StartsWith(line, PrefixOpen \o a \o SepSendMessageTo \o r) =>
            \A sep \in BodySeps : \A m \in BodyParts :
              (/\ line = MessageLine(a, r, sep, m)
               /\ NoSeparator(a) /\ NoSeparator(r) /\ NoSeparator(m)) =>
                ParsedAs(a, r, Unquoted(m))

\* the number of occurrences of sep in s from position i on, counted from the
\* left without overlap
RECURSIVE OccurrencesFrom(_, _, _)
OccurrencesFrom(s, sep, i) ==
  IF i + Len(sep) - 1 > Len(s) THEN 0
  ELSE IF \A j \in 1..Len(sep) : s[i + j - 1] = sep[j]
  THEN 1 + OccurrencesFrom(s, sep, i + Len(sep))
  ELSE OccurrencesFrom(s, sep, i + 1)

\* the text after "open ", as the open sub-parser gets it
OpenCommand == Trimmed(SubSeq(line, Len(PrefixOpen) + 1, Len(line)))

\* an open command in which " and send a message to " occurs more than once
RepeatedSeparator ==
  /\ StartsWith(Lower(line), PrefixOpen)
  /\ OccurrencesFrom(OpenCommand, SepSendMessageTo, 1) > 1

C5_OpenSettleSend ==
  (Responded /\ IsMessageCommand) =>
    /\ \A i \in EventsOf("messenger") :
         \E j \in EventsOf("open") : \E k \in EventsOf("sleep") :
           /\ j < k
           /\ k < i
           /\ calls[j].out = "returned"
           /\ calls[k].arg = <<ToString(SettleDelay)>>
    /\ \A j \in EventsOf("open") :
         calls[j].out = "raised" =>
           /\ outcome.val[1] = CrossGlyph
           /\ outcome.val[2] = "Failed to open "
           /\ EventsOf("sleep") = {}
           /\ EventsOf("messenger") = {}

\* an open-and-message command whose every launch strategy failed
C5_Witness ==
  /\ Responded
  /\ IsMessageCommand
  /\ \E j \in EventsOf("open") : calls[j].out = "raised"
  /\ SomeProcess({"nonzero", "timeout", "oserror"})
  /\ EventsOf("messenger") = {}
  /\ outcome.val[2] = "Failed to open "

\* the three responses of an open-and-message command, by their fixed words
OpenFailedTemplate(response) ==
  Len(response) >= 2 /\ response[1] = CrossGlyph /\ response[2] = "Failed to open "

SentTemplate(response) ==
  /\ Len(response) >= 2 /\ response[1] = CheckGlyph /\ response[2] = "Opened "
  /\ \E i \in 1..Len(response) : response[i] = " and sent message to "

NotSentTemplate(response) ==
  /\ Len(response) >= 2 /\ response[1] = CheckGlyph /\ response[2] = "Opened "
  /\ \E i \in 1..Len(response) : response[i] = ", but failed to send message: "

\* C6: the three responses of an open-and-message command exclude each other;
\* when the launch succeeded and the messenger did not send (a channel that is
\* not supported or not implemented included), the response is "opened, but
\* failed to send", it names the app that was opened, and it is neither the
\* sent nor the failed-to-open response.
C6_PartialFailureReported ==
  (Responded /\ IsMessageCommand) =>
    /\ ~(OpenFailedTemplate(outcome.val) /\ SentTemplate(outcome.val))
    /\ ~(OpenFailedTemplate(outcome.val) /\ NotSentTemplate(outcome.val))
    /\ ~(SentTemplate(outcome.val) /\ NotSentTemplate(outcome.val))
    /\ \A j \in EventsOf("open") :
         calls[j].out = "returned" =>
           /\ (Lower(calls[j].arg) \notin {MessagesApp, MessageApp} =>
                 \E i \in EventsOf("messenger") : calls[i].out = "failed")
           /\ \A i \in EventsOf("messenger") :
                calls[i].out = "failed" =>
                  /\ NotSentTemplate(outcome.val)
                  /\ ~SentTemplate(outcome.val)
                  /\ ~OpenFailedTemplate(outcome.val)
                  /\ StartsWith(outcome.val,
                                <<CheckGlyph, "Opened ">> \o calls[j].arg
                                   \o <<", but failed to send message: ">>)

\* Slack was opened and the message was not sent
C6_Witness ==
  /\ Responded
  /\ IsMessageCommand
  /\ \E j \in EventsOf("open") :
       calls[j].out = "returned" /\ calls[j].arg = <<"S","l","a","c","k">>
  /\ \E i \in EventsOf("messenger") : calls[i].out = "failed"
  /\ NotSentTemplate(outcome.val)

\* the operations that are commands of the session
CommandOps ==
  {"send_message", "open_app", "list_apps", "list_running_apps", "interact_with_app",
   "close_app"}

\* C7: after any sequence of start and stop calls, while the session is not
\* running only start makes it running, and each of send_message, open_app,
\* list_apps, list_running_apps, interact_with_app and close_app raises the
\* session error "ComputerTalk is not running", makes no adapter call and leaves
\* the registry of tracked apps and the running flag unchanged.
C7_SessionGuard ==
  [][~is_running =>
       /\ (is_running' => outcome'.op = "start")
       /\ (outcome'.op \in CommandOps =>
             /\ outcome'.exc = "CommunicationError"
             /\ outcome'.val = <<"ComputerTalk is not running">>
             /\ calls' = << >>
             /\ running_apps' = running_apps
             /\ is_running' = is_running)]_vars

\* a stopped session that still tracks an app refused close_app
C7_Witness ==
  /\ ~is_running
  /\ running_apps # << >>
  /\ outcome.op = "close_app"
  /\ outcome.arg \in DOMAIN running_apps
  /\ outcome.exc = "CommunicationError"
  /\ running_apps[outcome.arg].status = "running"

\* the line was handled as a listing, and the listing call returned a list
IsListing ==
  /\ calls # << >>
  /\ calls[1].ev = "list"
  /\ calls[1].out = "returned"

\* where the entries of the rendered list start in the response
Bullets == {i \in 1..Len(outcome.val) : outcome.val[i] = Bullet}

\* the response has name right after position p, and then the end of the entry
NameAt(p, name) ==
  /\ p + Len(name) < Len(outcome.val)
  /\ \A c \in 1..Len(name) : outcome.val[p + c] = name[c]
  /\ outcome.val[p + Len(name) + 1] \in {": ", "\n", "\n\n(Showing first 10 apps)"}

\* C8: for "list apps" and "running apps" over a list of n entries the response
\* renders exactly min(n, 10) entries, in the order of the list; when n > 10 it
\* renders the first 10 and ends with the truncation note; when n = 0 it is the
\* "no apps" message and renders no list.
C8_ListTruncated ==
  (Responded /\ IsListing) =>
    LET apps == calls[1].arg
        n == Len(apps)
    IN  /\ Cardinality(Bullets) = IF n < 10 THEN n ELSE 10
        /\ \A p \in Bullets : NameAt(p, apps[Cardinality({q \in Bullets : q <= p})].name)
        /\ (n > 10 => outcome.val[Len(outcome.val)] = "\n\n(Showing first 10 apps)")
        /\ (n = 0 => outcome.val \in {<<"No apps available">>, <<"No running apps detected">>})

\* "list apps" over the 15 entries of the macOS catalog rendered 10 of them
C8_Witness ==
  /\ Responded
  /\ IsListing
  /\ calls[1].prog = "list_apps"
  /\ Len(calls[1].arg) = 15
  /\ Cardinality(Bullets) = 10
  /\ outcome.val[Len(outcome.val)] = "\n\n(Showing first 10 apps)"

\* the static catalog of each supported host
PlatformCatalog(host) ==
  IF host = "darwin" THEN DarwinApps
  ELSE IF host = "windows" THEN WindowsApps
  ELSE IF host = "linux" THEN LinuxApps
  ELSE << >>

\* C9: on darwin, windows and linux "list apps" gets that host's catalog, which
\* is not empty, and the "no apps" response is given only on a host that is
\* none of the three.
C9_CatalogPerHost ==
  (Responded /\ IsListing /\ calls[1].prog = "list_apps") =>
    /\ (system \in {"darwin", "windows", "linux"} =>
          /\ calls[1].arg = PlatformCatalog(system)
          /\ calls[1].arg # << >>)
    /\ (outcome.val = <<"No apps available">> =>
          system \notin {"darwin", "windows", "linux"})

\* the first process the adapter started for the open call at position j
LaunchOf(j) == calls[j + 1]

\* C10: when the app name of an open command is, whatever its case, the
\* display name of a descriptor of the host's catalog, the adapter is asked to
\* launch that descriptor's launch token.
C10_LaunchTokenUsed ==
  (Responded /\ StartsWith(Lower(line), PrefixOpen)) =>
    \A j \in EventsOf("open") :
      \A k \in 1..Len(PlatformCatalog(system)) :
        Lower(PlatformCatalog(system)[k].name) = Lower(calls[j].arg) =>
          /\ j < Len(calls)
          /\ LaunchOf(j).ev = "process"
          /\ LaunchOf(j).arg = PlatformCatalog(system)[k].command

\* the session is running and the last call was interact_with_app(app_name, action)
Controlled == is_running /\ outcome.op = "interact_with_app"

\* C11: on every platform interact_with_app with an action that is none of
\* activate, close, quit, minimize and maximize returns a result with success
\* false and the action echoed in its action field; it does not raise and it
\* does not return success true.
C11_UnknownActionFails ==
  (Controlled /\ outcome.arg[2] \notin MacosActions) =>
    /\ outcome.exc = "none"
    /\ outcome.val.success = FALSE
    /\ outcome.val.action = outcome.arg[2]

\* the step is a call of close_app (the clock is the one thing that moves
\* without a call)
CloseAppStep == outcome'.op = "close_app" /\ now' = now

\* C12: close_app on an id whose TrackedApp is already closed returns a failure
\* result (an exception or success false), runs no further quit action and
\* leaves the registry unchanged.
C12_CloseIdempotent ==
  [][(/\ CloseAppStep
      /\ outcome'.arg \in DOMAIN running_apps
      /\ running_apps[outcome'.arg].status = "closed") =>
       /\ (outcome'.exc # "none" \/ outcome'.val.success = FALSE)
       /\ \A i \in 1..Len(calls') : calls'[i].ev # "process"
       /\ running_apps' = running_apps]_vars

\* the last call launched an application: open_app returned, or the open call
\* of an open command returned
Launched ==
  \/ (outcome.op = "open_app" /\ outcome.exc = "none")
  \/ (outcome.op = "send_message" /\ \E i \in EventsOf("open") : calls[i].out = "returned")

\* C13: every successful launch adds one TrackedApp under an app_id that no
\* other entry has, and leaves every existing entry as it was, also when the
\* same application name is launched twice within one clock second.
C13_OneEntryPerLaunch ==
  [][(now' = now /\ Launched') =>
       /\ Cardinality(DOMAIN running_apps') = Cardinality(DOMAIN running_apps) + 1
       /\ \A id \in DOMAIN running_apps :
            id \in DOMAIN running_apps' /\ running_apps'[id] = running_apps[id]]_vars

\* C14: a TrackedApp becomes closed only in a call of close_app whose quit
\* action reported success; when the quit action returns success false or
\* raises, the status stays running.
C14_ClosedOnlyOnSuccess ==
  [][\A id \in DOMAIN running_apps :
       (/\ running_apps[id].status = "running"
        /\ id \in DOMAIN running_apps'
        /\ running_apps'[id].status = "closed") =>
         /\ outcome'.op = "close_app"
         /\ outcome'.arg = id
         /\ outcome'.exc = "none"
         /\ outcome'.val.success = TRUE]_vars

\* the line is a close command, and the name it gives
IsCloseCommand == StartsWith(Lower(line), PrefixClose)

ClosedName == Trimmed(SubSeq(line, Len(PrefixClose) + 1, Len(line)))

\* C15: a close command makes exactly one call of the adapter's control
\* operation, a quit for the name the line gives; the response starts with the
\* success glyph exactly when that call returned a result with success true, and
\* with the failure glyph when the result has success false or the call raised,
\* on every platform.
C15_CloseGlyphMatchesResult ==
  (Responded /\ IsCloseCommand) =>
    /\ Cardinality(EventsOf("interact")) = 1
    /\ \A i \in EventsOf("interact") :
         /\ calls[i].prog = "quit"
         /\ calls[i].arg = ClosedName
         /\ (outcome.val[1] = CheckGlyph <=> calls[i].out = "success")
         /\ (calls[i].out \in {"failure", "raised"} => outcome.val[1] = CrossGlyph)

\* the launch strategies of the host for app_name, in their listed order
StrategiesOf(host, app_name) ==
  IF host = "darwin" THEN MacosCommands(app_name)
  ELSE IF host = "windows" THEN WindowsCommands(app_name)
  ELSE IF host = "linux" THEN LinuxCommands(app_name)
  ELSE << >>

\* the exit signal the host accepts from a strategy: exit code 0 on macOS, the
\* end of the start command on Windows, a started process on Linux
Accepted(host, out) ==
  IF host = "darwin" THEN out = "exit0" ELSE out \in {"exit0", "nonzero"}

\* the processes started for the open call at position j: the process events
\* that follow it without another event in between
LaunchRun(j) ==
  {i \in (j + 1)..Len(calls) : \A h \in (j + 1)..i : calls[h].ev = "process"}

\* C16: on every platform the launch runs the strategies in their listed order
\* and stops at the first one that ends with an accepted exit signal; it
\* succeeds exactly when that happened, and it raises only after every strategy
\* was tried and failed, or when the operating system is not recognized.
C16_LaunchStrategies ==
  (Responded /\ StartsWith(Lower(line), PrefixOpen)) =>
    \A j \in EventsOf("open") :
      LET run == LaunchRun(j)
          n == Cardinality(run)
          cmds == StrategiesOf(system, calls[j].arg)
      IN  /\ n <= Len(cmds)
          /\ \A i \in run :
               /\ calls[i].prog = cmds[i - j].prog
               /\ calls[i].arg = cmds[i - j].arg
               /\ (Accepted(system, calls[i].out) => i = j + n)
          /\ (calls[j].out = "returned" <=> (n > 0 /\ Accepted(system, calls[j + n].out)))
          /\ (calls[j].out = "raised" =>
                \/ system \notin {"darwin", "windows", "linux"}
                \/ (n = Len(cmds) /\ \A i \in run : ~Accepted(system, calls[i].out)))

\* the same process, ending with a non-zero exit code where it timed out
AsNonzero(out) == IF out = "timeout" THEN "nonzero" ELSE out

AllAsNonzero(outs) == [i \in DOMAIN outs |-> AsNonzero(outs[i])]

EnvAsNonzero(env) ==
  [launch |-> AllAsNonzero(env.launch), msgr |-> AsNonzero(env.msgr),
   ctrl |-> AsNonzero(env.ctrl), enum |-> AsNonzero(env.enum),
   processes |-> env.processes]

\* a process of the call timed out
TimedOut(done) ==
  \E i \in 1..Len(done.calls) : done.calls[i].ev = "process" /\ done.calls[i].out = "timeout"

\* what the caller of an adapter operation sees of its result: that it raised,
\* or the success flag of the result it returned
ResultSeen(ret) ==
  IF Raised(ret) THEN "raised" ELSE IF ret.val.success THEN "success" ELSE "failure"

NotProcess(call) == call.ev # "process"

\* what the caller of send_message sees: the glyph of the response and how the
\* adapter and messenger calls behind it ended
ResponseSeen(done) ==
  [raised |-> Raised(done.ret),
   glyph |-> IF Raised(done.ret) THEN "" ELSE done.ret.val[1],
   steps |-> SelectSeq(done.calls, NotProcess)]

\* no process invocation occurs twice among the calls
NeverRetried(made) ==
  \A i, j \in 1..Len(made) :
    (/\ i # j
     /\ made[i].ev = "process"
     /\ made[j].ev = "process"
     /\ made[i].prog = made[j].prog) => made[i].arg # made[j].arg

\* C17: for every external process (a launch strategy, a control action, the
\* enumeration of the running processes, the messenger script) the caller sees
\* the same outcome when the process times out as when it exits with a non-zero
\* code, and no invocation is made twice.
C17_TimeoutAsNonzero ==
  [][now' = now =>
       /\ NeverRetried(calls')
       /\ outcome'.op = "open_app" =>
            \A outs \in SameAnswer(system) :
              \A done \in {open_app(is_running, system, running_apps, now, outcome'.arg, outs)} :
                (done.calls = calls' /\ TimedOut(done)) =>
                  \A same \in {open_app(is_running, system, running_apps, now, outcome'.arg,
                                        AllAsNonzero(outs))} :
                    /\ ResultSeen(same.ret) = ResultSeen(done.ret)
                    /\ same.registry = done.registry
       /\ outcome'.op = "interact_with_app" =>
            \A out \in ProcOutcomes :
              \A done \in {interact_with_app(is_running, system, outcome'.arg[1],
                                             outcome'.arg[2], out)} :
                (done.calls = calls' /\ TimedOut(done)) =>
                  ResultSeen(interact_with_app(is_running, system, outcome'.arg[1],
                                               outcome'.arg[2], AsNonzero(out)).ret)
                    = ResultSeen(done.ret)
       /\ outcome'.op = "close_app" =>
            \A out \in ProcOutcomes :
              \A done \in {close_app(is_running, system, running_apps, outcome'.arg, out)} :
                (done.calls = calls' /\ TimedOut(done)) =>
                  \A same \in {close_app(is_running, system, running_apps, outcome'.arg,
                                         AsNonzero(out))} :
                    /\ ResultSeen(same.ret) = ResultSeen(done.ret)
                    /\ same.registry = done.registry
       /\ outcome'.op = "list_running_apps" =>
            \A out \in ProcOutcomes : \A n \in ProcessCounts :
              \A done \in {core_list_running_apps(is_running, system, out, n)} :
                (done.calls = calls' /\ TimedOut(done)) =>
                  core_list_running_apps(is_running, system, AsNonzero(out), n).ret = done.ret
       /\ outcome'.op = "send_message" =>
            \A env \in Envs(system, outcome'.arg, SameAnswer(system)) :
              \A done \in {send_message(is_running, system, running_apps, now,
                                        task_description, outcome'.arg, env)} :
                (done.calls = calls' /\ TimedOut(done)) =>
                  ResponseSeen(send_message(is_running, system, running_apps, now,
                                            task_description, outcome'.arg,
                                            EnvAsNonzero(env)))
                    = ResponseSeen(done)]_vars

\* the line was handled as a simple open, and the name that was opened
IsSimpleOpen ==
  /\ Len(calls) >= 3
  /\ calls[2] = DebugLog("Detected simple app opening")
  /\ calls[3].ev = "open"

OpenedName == calls[3].arg

\* the canonical form of a known token: its first letter in upper case (for the
\* tokens of the list, all of one lower-case word, title case and
\* capitalize-first-letter give the same text)
Canonical(token) == <<UpperChar(token[1])>> \o SubSeq(token, 2, Len(token))

\* the first whitespace-delimited word of text; empty when text is blank
FirstWord(text) ==
  LET t == Trimmed(text)
      blanks == {i \in 1..Len(t) : t[i] \in {" ", "\t", "\n"}}
  IN  IF blanks = {} THEN t
      ELSE SubSeq(t, 1, (CHOOSE i \in blanks : \A j \in blanks : i <= j) - 1)

\* what the App-Name Extractor is to return for text
ExtractedName(text) ==
  LET contained == {k \in 1..Len(app_patterns) : Contains(Lower(text), app_patterns[k])}
  IN  IF contained # {}
      THEN Canonical(app_patterns[CHOOSE k \in contained : \A h \in contained : k <= h])
      ELSE IF Trimmed(text) = << >> THEN << >>
      ELSE Capitalize(FirstWord(text))

\* C18: for every text the App-Name Extractor returns the canonical form of the
\* first token, in the order of the known-application list, that the lower-cased
\* text contains (the first in the list, not the longest and not the first in
\* the text); when the text contains no token, its first whitespace-delimited
\* word capitalized; when the text is blank, the empty text.
C18_FirstContainedToken ==
  (Responded /\ IsSimpleOpen) => OpenedName = ExtractedName(OpenCommand)

\* "open chrome mail" opened Mail: mail comes before chrome in the list
C18_Witness ==
  /\ Responded
  /\ IsSimpleOpen
  /\ line = PrefixOpen \o <<"c","h","r","o","m","e"," ","m","a","i","l">>
  /\ OpenedName = <<"M","a","i","l">>

\* C20: every token of the known-application list can be reached: for the text
\* that is exactly the token, the App-Name Extractor returns the canonical form
\* of that token and not the form of another token.
C20_EveryTokenReachable ==
  Responded =>
    \A k \in 1..Len(app_patterns) :
      line = PrefixOpen \o app_patterns[k] =>
        IsSimpleOpen /\ OpenedName = Canonical(app_patterns[k])

\* the message separator the text after "open " holds, letter case aside: the
\* one ending in "to" when it is there
MessageSep ==
  IF Contains(Lower(OpenCommand), SepSendMessageTo) THEN SepSendMessageTo ELSE SepSendMessage

\* the text before and the text after the message separator
BeforeSep == SubSeq(OpenCommand, 1, Find(Lower(OpenCommand), MessageSep) - 1)

AfterSep ==
  SubSeq(OpenCommand, Find(Lower(OpenCommand), MessageSep) + Len(MessageSep),
         Len(OpenCommand))

\* an open command with one message separator, in any letter case, followed by
\* a recipient and a body separator
OneSeparatorAnyCase ==
  /\ StartsWith(Lower(line), PrefixOpen)
  /\ OccurrencesFrom(Lower(OpenCommand), SepSendMessage, 1) = 1
  /\ \E sep \in BodySeps : Contains(Trimmed(AfterSep), sep)

\* C19: whenever the text after "open " holds " and send a message to " or
\* " and send a message " (here: once) in any letter case and the rest holds a
\* body separator, the command is handled as an open-and-message command whose
\* app_name is the text before the separator, and it is not reported as an
\* unparseable message command.
C19_SeparatorAnyCase ==
  (Responded /\ OneSeparatorAnyCase) =>
    /\ IsMessageCommand
    /\ outcome.val[2] # "Could not parse message command: "
    /\ \E j \in EventsOf("open") : calls[j].arg = Trimmed(BeforeSep)

=============================================================================
